---- MODULE Spec2Model ----
(***************************************************************************)
(* Model of the tender-retrieval pipeline: the workflow graph of           *)
(* src/pipeline/graph.py, the four stage functions of                      *)
(* src/pipeline/nodes.py with their tenacity retry wrapper, the database   *)
(* client of src/database/neo4j_client.py with its backoff wrapper, and    *)
(* the PipelineState record of src/models/schema.py.                       *)
(*                                                                         *)
(* Spec      : one run of TenderPipelineGraph.run_pipeline.                *)
(* FairSpec  : Spec with weak fairness of the run's steps (an awaited      *)
(*             collaborator call returns or raises).                       *)
(* SpecGraph : the compiled graph invoked on an arbitrary valid            *)
(*             PipelineState (graph.ainvoke(state)), which is the only way *)
(*             the error_handler edges are exercised.                      *)
(* SpecConc  : Spec together with a second run_pipeline coroutine on the   *)
(*             same pipeline object and the same event loop.               *)
(* SpecUtils : one call sequence of the PipelineUtils file functions       *)
(*             (save_results / load_results, cache_results /               *)
(*             get_cached_results) on bounded arguments.                   *)
(***************************************************************************)
EXTENDS Integers, Sequences, FiniteSets, TLC

VARIABLES
    node,       \* position of the run in the workflow graph
    attempt,    \* attempt number of the running wrapper (tenacity / backoff)
    state,      \* the PipelineState threaded through the graph
    raised,     \* exception that left run_pipeline: <<kind, cause>>
    lastExc,    \* exception of the last failed attempt
    calls,      \* per stage: body invocations during its current entry
    succ,       \* per stage: an attempt of its current entry has succeeded
    fails,      \* per stage: failed collaborator calls during the run
    trace,      \* the stages entered by the graph, in order
    failedAt,   \* stage whose failure ended or diverted the run
    waiting,    \* the backoff delay the run is suspended in, if any
    reentries,  \* times a stage was started again after it had failed
    context,    \* the QueryContext the caller passed to run_pipeline
    dbTries,    \* outcomes of the tries of the current execute_query call
    logged,     \* per logger call site: error events written so far
    peer,       \* a second run of the same pipeline object on the event loop
    util        \* arguments, files and outcome of a PipelineUtils call

vars == <<node, attempt, state, raised, lastExc, calls, succ, fails, trace,
          failedAt, waiting, reentries, context, dbTries, logged, peer, util>>

(***************************************************************************)
(* Program constants and bounds                                            *)
(***************************************************************************)
MAX_RETRIES == 3

MaxRows == 2
MaxEntries == 3
MaxResults == 2
CountCap == 5

\* counters saturate at CountCap (never reached while the wrappers stop)
Bump(n) == IF n < CountCap THEN n + 1 ELSE n

Working == {"query_analysis", "query_enhancement", "cypher_generation", "query_execution"}
Wrapped == {"query_analysis", "query_enhancement", "cypher_generation"}
StageOrder == <<"query_analysis", "query_enhancement", "cypher_generation", "query_execution">>

END == "END"
RAISED == "raised"
Terminal == {END, RAISED}

None == "None"
NoExc == <<None, None>>

\* Relevance scores are in tenths: 0.0, 0.95 (as 9), 1.0 (as 10) and an
\* out-of-range 1.5 (as 15)

\* dict.get(key, default) on a row or a relationship of a row
Get(r, k, d) == IF k \in DOMAIN r THEN r[k] ELSE d

\* a mapping is the set of its key/value pairs
RowProperties == {<<"title", "Network Infrastructure Tender">>}
RowMetadata == {<<"document_type", "Technical">>}

\* the rows the database returns: a complete row, a row with only an id
\* and a score, a row without score whose relationships lack a type or an
\* end_node, and a row with an out-of-range score
Rows ==
    { [ id |-> 1, properties |-> RowProperties, score |-> 0,
        metadata |-> RowMetadata,
        relationships |->
            << [ type |-> "REQUIRES", end_node |-> "456",
                 properties |-> {<<"priority", "high">>} ] >> ],
      [ id |-> 2, score |-> 9 ],
      [ id |-> 3, properties |-> RowProperties, metadata |-> RowMetadata,
        relationships |-> << [end_node |-> "456"], [type |-> "REQUIRES"] >> ],
      [ id |-> 4, properties |-> RowProperties, score |-> 15 ] }
RowSeqs == UNION {[1..n -> Rows] : n \in 0..MaxRows}

(***************************************************************************)
(* QueryContext and PipelineState (schema.py)                              *)
(***************************************************************************)
\* relevance_threshold is in tenths, like the scores
QueryContext(scope, threshold, maxres, metadata) ==
    [ search_scope        |-> scope,
      relevance_threshold |-> threshold,
      max_results         |-> maxres,
      include_metadata    |-> metadata ]

\* QueryContext(): the field defaults
DefaultContext == QueryContext(<<>>, 7, 100, TRUE)

\* mutant: max_results has no lower limit
ValidContext_no_minimum(c) ==
    0 <= c.relevance_threshold /\ c.relevance_threshold <= 10

\* the Field constraints: relevance_threshold ge=0 le=1, max_results ge=1
ValidContext(c) ==
    /\ 0 <= c.relevance_threshold /\ c.relevance_threshold <= 10
    /\ c.max_results >= 1

\* the arguments a caller constructs a QueryContext from: none (the
\* defaults), a custom context, and arguments outside the constraints
ContextArgs ==
    { DefaultContext,
      QueryContext(<<"Technical">>, 9, 1, FALSE),
      QueryContext(<<>>, 11, 100, TRUE),
      QueryContext(<<>>, 0 - 1, 100, TRUE),
      QueryContext(<<"Technical">>, 7, 0, TRUE) }

\* the contexts a caller can pass: construction raises ValidationError for
\* the others and no object exists
Contexts == {c \in ContextArgs : ValidContext(c)}

PipelineState(cn, rc, err) ==
    [ original_query      |-> "query",
      start_time          |-> "run entry",
      current_node        |-> cn,
      retry_count         |-> rc,
      error               |-> err,
      query_context       |-> DefaultContext,
      enhanced_query      |-> None,
      cypher_query        |-> None,
      results             |-> {},
      history             |-> <<>>,
      performance_metrics |-> {} ]

\* mutant: the run starts with a retry already counted
initial_state_one == PipelineState("query_analysis", 1, None)

\* run_pipeline: the State created at run entry
initial_state == PipelineState("query_analysis", 0, None)

\* run_pipeline(query, context): context or QueryContext()
run_pipeline(ctx) == [initial_state EXCEPT !.query_context = ctx]

(***************************************************************************)
(* Workflow graph (graph.py)                                               *)
(***************************************************************************)
check_success(st) == st.error = None

\* mutant: the success edge of query_analysis skips query_enhancement
success_edge_skips(s) ==
    CASE s = "query_analysis"    -> "cypher_generation"
      [] s = "query_enhancement" -> "cypher_generation"
      [] s = "cypher_generation" -> "query_execution"
      [] s = "query_execution"   -> END

\* mutant: the success edge of cypher_generation leaves the graph
success_edge_early_end(s) ==
    CASE s = "query_analysis"    -> "query_enhancement"
      [] s = "query_enhancement" -> "cypher_generation"
      [] s = "cypher_generation" -> END
      [] s = "query_execution"   -> END

success_edge(s) ==
    CASE s = "query_analysis"    -> "query_enhancement"
      [] s = "query_enhancement" -> "cypher_generation"
      [] s = "cypher_generation" -> "query_execution"
      [] s = "query_execution"   -> END

\* the conditional edge leaving a working node
conditional_edge(s, st) ==
    IF check_success(st) THEN success_edge(s) ELSE "error_handler"

recovery_paths(cn) ==
    CASE cn = "query_analysis"    -> "retry_analysis"
      [] cn = "query_enhancement" -> "retry_enhancement"
      [] cn = "cypher_generation" -> "retry_cypher"
      [] cn = "query_execution"   -> "retry_execution"
      [] OTHER                    -> "end"

\* mutant: the budget test is strict
handle_error_strict(st) ==
    IF st.retry_count > MAX_RETRIES THEN "end"
    ELSE recovery_paths(st.current_node)

handle_error(st) ==
    IF st.retry_count >= MAX_RETRIES THEN "end"
    ELSE recovery_paths(st.current_node)

error_edge(r) ==
    CASE r = "retry_analysis"    -> "query_analysis"
      [] r = "retry_enhancement" -> "query_enhancement"
      [] r = "retry_cypher"      -> "cypher_generation"
      [] r = "retry_execution"   -> "query_execution"
      [] r = "end"               -> END

(***************************************************************************)
(* Retry policies                                                          *)
(***************************************************************************)
\* mutants: the wrapper has no stop condition, stops one attempt late, or
\* stops one attempt early
stop_after_attempt_never(n) == FALSE
stop_after_attempt_late(n) == n > MAX_RETRIES
stop_after_attempt_early(n) == n >= MAX_RETRIES - 1

\* tenacity: stop_after_attempt(settings.MAX_RETRIES)
stop_after_attempt(n) == n >= MAX_RETRIES

\* mutant: the database wrapper gives up after the first try
max_tries_exceeded_first(n) == n >= 1

\* backoff.on_exception(..., max_tries=settings.MAX_RETRIES)
max_tries_exceeded(n) == n >= MAX_RETRIES

\* mutant: the database wrapper retries every failure of the driver
Transient_with_client == {"ServiceUnavailable", "SessionExpired", "ClientError"}

\* the failure kinds the database wrapper retries
Transient == {"ServiceUnavailable", "SessionExpired"}

(***************************************************************************)
(* Stage bodies: the State produced by a successful attempt                *)
(***************************************************************************)
Messages(s) == <<s \o ":system", s \o ":human", s \o ":response">>

\* analysis.document_scope, as parsed from the response
DocumentScope == <<"Technical", "Requirements">>

\* mutant: the prompt also quotes what the State has measured so far
analysis_prompt_with_metrics(st) ==
    IF st.performance_metrics = {} THEN st.original_query
    ELSE st.original_query \o ", measured"

\* the human message: the template filled with state.original_query
analysis_prompt(st) == st.original_query

\* a deterministic collaborator: the parsed analysis is a function of the
\* prompt
gpt4_analysis(prompt) ==
    [query_intent |-> "intent of " \o prompt, document_scope |-> DocumentScope]

analysis_update(st) ==
    [st EXCEPT !.query_context =
                   [DefaultContext EXCEPT !.search_scope =
                       gpt4_analysis(analysis_prompt(st)).document_scope],
               !.enhanced_query = gpt4_analysis(analysis_prompt(st)).query_intent,
               !.history = st.history \o Messages("query_analysis"),
               !.performance_metrics =
                   @ \cup {"analysis_duration", "analysis_confidence"}]

\* mutant: the history is replaced by the stage's own messages
enhancement_update_resets(st) ==
    [st EXCEPT !.enhanced_query = "enhanced",
               !.history = Messages("query_enhancement"),
               !.performance_metrics =
                   @ \cup {"enhancement_duration", "enhancement_quality_score"}]

enhancement_update(st) ==
    [st EXCEPT !.enhanced_query = "enhanced",
               !.history = st.history \o Messages("query_enhancement"),
               !.performance_metrics =
                   @ \cup {"enhancement_duration", "enhancement_quality_score"}]

\* mutant: the stage also stores its response as the enhanced query
cypher_update_rewrites(st) ==
    [st EXCEPT !.cypher_query = "cypher",
               !.enhanced_query = "cypher",
               !.history = st.history \o Messages("cypher_generation"),
               !.performance_metrics =
                   @ \cup {"cypher_generation_duration", "query_complexity_score"}]

cypher_update(st) ==
    [st EXCEPT !.cypher_query = "cypher",
               !.history = st.history \o Messages("cypher_generation"),
               !.performance_metrics =
                   @ \cup {"cypher_generation_duration", "query_complexity_score"}]

\* mutant: the score has no upper limit
ValidScore_no_upper(x) == 0 <= x

\* QueryResult: relevance_score is constrained to [0,1]
ValidScore(x) == 0 <= x /\ x <= 10

\* the relationship descriptor built from a relationship of a row
to_relationship(rel) ==
    [ type       |-> Get(rel, "type", None),
      target     |-> Get(rel, "end_node", None),
      properties |-> Get(rel, "properties", {}) ]

\* mutant: the row's metadata is copied whatever include_metadata says
to_query_result_ungated(r, include_metadata) ==
    [ node_id         |-> IF "id" \in DOMAIN r THEN ToString(r.id) ELSE None,
      content         |-> Get(r, "properties", {}),
      relevance_score |-> Get(r, "score", 10),
      metadata        |-> IF "metadata" \in DOMAIN r THEN {r.metadata} ELSE {},
      relationships   |->
          [i \in 1..Len(Get(r, "relationships", <<>>)) |->
              to_relationship(r.relationships[i])] ]

\* QueryResult(...) for one row; metadata holds the mapping, or is {} for
\* None; the score defaults to 1.0
to_query_result(r, include_metadata) ==
    [ node_id         |-> IF "id" \in DOMAIN r THEN ToString(r.id) ELSE None,
      content         |-> Get(r, "properties", {}),
      relevance_score |-> Get(r, "score", 10),
      metadata        |-> IF include_metadata /\ "metadata" \in DOMAIN r
                          THEN {r.metadata} ELSE {},
      relationships   |->
          [i \in 1..Len(Get(r, "relationships", <<>>)) |->
              to_relationship(r.relationships[i])] ]

\* processed_results: one QueryResult per row, in row order
processed_results(rows, st) ==
    [i \in 1..Len(rows) |->
        to_query_result(rows[i], st.query_context.include_metadata)]

\* validate_relationships: every descriptor has the keys type and target
validate_relationships(rels) ==
    \A i \in 1..Len(rels) : {"type", "target"} \subseteq DOMAIN rels[i]

\* the Field constraints and the validator of QueryResult
ValidResult(q) ==
    ValidScore(q.relevance_score) /\ validate_relationships(q.relationships)

\* every row yields a QueryResult (validity does not depend on the gate)
ValidRows(rows) ==
    \A i \in 1..Len(rows) : ValidResult(to_query_result(rows[i], TRUE))

execution_update(st, rows) ==
    [st EXCEPT !.results = {processed_results(rows, st)},
               !.performance_metrics = @ \cup {"execution_time", "result_count"}]

\* model_copy is shallow: unless the update names performance_metrics, the
\* copy holds the input's mapping, and _update_metrics writes into it
shares_metrics(s) == s \in Wrapped

\* the input State object of stage s after the attempt that produced out
input_after(s, st, out) ==
    IF shares_metrics(s)
    THEN [st EXCEPT !.performance_metrics = out.performance_metrics]
    ELSE st

\* an entry of dbTries
Try(exc, rows) == [exc |-> exc, rows |-> rows]

\* the State a stage body returns when its collaborators succeed
StageUpdate(s, st) ==
    CASE s = "query_analysis"    -> analysis_update(st)
      [] s = "query_enhancement" -> enhancement_update(st)
      [] s = "cypher_generation" -> cypher_update(st)
      [] s = "query_execution"   -> execution_update(st, <<>>)

(***************************************************************************)
(* Logging and the event loop                                              *)
(***************************************************************************)
\* the call sites of logger.error: the except block of each stage body and
\* the one of run_pipeline
LogSites == Working \cup {"run_pipeline"}

\* mutant: the except block re-raises without logging
logger_error_silent(lg, site) == lg

\* logger.error(...) in an except block, before its raise
logger_error(lg, site) == [lg EXCEPT ![site] = Bump(@)]

\* mutant: every State is given one and the same default mapping
metrics_object_shared(run) == "default"

\* performance_metrics: Field(default_factory=dict), a new mapping object
\* for the State each run creates
metrics_object(run) == run

\* the two runs' States hold the same performance_metrics object
SameMetricsObject == metrics_object("run") = metrics_object("peer")

\* time.sleep, the delay of the synchronous backoff wrapper, holds the
\* event loop's thread; asyncio.sleep, the delay of tenacity around a
\* coroutine, yields to the loop
blocks_event_loop(sleep) == sleep = "time.sleep"

(***************************************************************************)
(* QueryResult and the PipelineUtils file functions (schema.py, utils.py)  *)
(***************************************************************************)
\* a Python value: its type and its text
Value(t, r) == [type |-> t, repr |-> r]
PyNone == Value("NoneType", "None")

\* the types json.dump writes without calling default
JSONNative == {"str", "int", "NoneType"}

\* property values as the database driver returns them
PropertyValues ==
    {Value("str", "Tender"), Value("int", "42"),
     Value("datetime", "2024-01-15 10:00:00")}

\* one relationship of a result: the keys query_execution always supplies
Relationship(p) == [type |-> "HAS_REQUIREMENT", target |-> "n2", properties |-> p]

\* QueryResult objects; content and metadata are abstracted to the value
\* held under their one key (metadata: PyNone when the field is None)
QueryResults ==
    [ node_id         : {"n1"},
      content         : PropertyValues,
      relevance_score : {9},
      metadata        : {PyNone, Value("str", "Document")},
      relationships   : {<<>>, <<Relationship(Value("int", "1"))>>},
      timestamp       : {Value("datetime", "2024-01-15 10:00:01")} ]

ResultLists == UNION {[1..n -> QueryResults] : n \in 0..MaxResults}

\* json.dump(..., default=str): a value that is not JSON-native is written
\* as the string str(value)
json_default(v) == Value("str", v.repr)
json_value(v) == IF v.type \in JSONNative THEN v ELSE json_default(v)

\* the JSON object written for r.model_dump()
json_dump(r) ==
    [r EXCEPT !.content = json_value(@),
              !.metadata = json_value(@),
              !.relationships =
                  [i \in 1..Len(@) |-> [@[i] EXCEPT !.properties = json_value(@)]],
              !.timestamp = json_value(@)]

\* QueryResult.model_validate: the datetime field parses a string; the
\* Dict fields keep the values they are given
parse_datetime(v) == IF v.type = "str" THEN Value("datetime", v.repr) ELSE v
model_validate(d) == [d EXCEPT !.timestamp = parse_datetime(@)]

\* what can fail in a cache call: creating the directory, pickling or
\* writing the entry, probing, reading or unpickling it
StoreFaults == {"mkdir", "pickle.dumps", "write_bytes"}
ReadFaults == {"exists", "read_bytes", "pickle.loads"}
Faults == {"none"} \cup StoreFaults \cup ReadFaults

\* the state of a PipelineUtils call sequence: file, cache, loaded and hit
\* hold at most one result list ({} when absent or None)
UtilCall(results, fault) ==
    [ results |-> results,
      fault   |-> fault,
      file    |-> {},
      loaded  |-> {},
      cache   |-> {},
      hit     |-> {},
      raised  |-> None,
      called  |-> {} ]

NoCall == UtilCall(<<>>, "none")

(***************************************************************************)
(* Initial states                                                          *)
(***************************************************************************)
InitRun(st) ==
    /\ node = "query_analysis"
    /\ attempt = 1
    /\ state = st
    /\ raised = NoExc
    /\ lastExc = None
    /\ calls = [s \in Working |-> 0]
    /\ succ = [s \in Working |-> FALSE]
    /\ fails = [s \in Working |-> 0]
    /\ trace = <<"query_analysis">>
    /\ failedAt = None
    /\ waiting = None
    /\ reentries = 0
    /\ context = st.query_context
    /\ dbTries = <<>>
    /\ logged = [site \in LogSites |-> 0]
    /\ peer = [node |-> "query_analysis", state |-> initial_state]

\* run_pipeline(query, context)
Init ==
    /\ \E ctx \in Contexts : InitRun(run_pipeline(ctx))
    /\ util = NoCall

\* graph.ainvoke(st) for any valid PipelineState st
GraphInputs ==
    {PipelineState(cn, rc, err) :
        cn \in Working \cup {"unknown"},
        rc \in 0..(MAX_RETRIES + 1),
        err \in {None, "boom"}}

InitGraph ==
    /\ \E st \in GraphInputs : InitRun(st)
    /\ util = NoCall

\* an input State of query_execution: the output of the three stages before
\* it, holding the query context ctx
ExecutionInput(ctx) ==
    [cypher_update(enhancement_update(analysis_update(initial_state)))
        EXCEPT !.query_context = ctx]

\* PipelineNodes.query_execution(state) called on such a State
InitExecute ==
    /\ \E ctx \in Contexts : state = ExecutionInput(ctx) /\ context = ctx
    /\ node = "query_execution"
    /\ attempt = 1
    /\ raised = NoExc
    /\ lastExc = None
    /\ calls = [s \in Working |-> 0]
    /\ succ = [s \in Working |-> s # "query_execution"]
    /\ fails = [s \in Working |-> 0]
    /\ trace = StageOrder
    /\ failedAt = None
    /\ waiting = None
    /\ reentries = 0
    /\ dbTries = <<>>
    /\ logged = [site \in LogSites |-> 0]
    /\ peer = [node |-> "query_analysis", state |-> initial_state]
    /\ util = NoCall

\* a PipelineUtils call sequence on a result list, with or without a fault
InitUtils ==
    /\ InitRun(initial_state)
    /\ \E results \in ResultLists, fault \in Faults :
           util = UtilCall(results, fault)

(***************************************************************************)
(* Steps shared by the stages                                              *)
(***************************************************************************)
\* the State object of the other run after a stage s of this run wrote its
\* metrics and produced out: written to only if both hold one mapping object
other_after(s, st, out) ==
    IF shares_metrics(s) /\ SameMetricsObject
    THEN [st EXCEPT !.performance_metrics = out.performance_metrics]
    ELSE st

\* mutant: the next stage's wrapper goes on counting from the attempts the
\* stage before it has used
Advance_keeps_attempt(s, st) ==
    LET nxt == conditional_edge(s, st) IN
    /\ state' = st
    /\ node' = nxt
    /\ attempt' = attempt
    /\ succ' = [succ EXCEPT ![s] = TRUE]
    /\ trace' = IF nxt \in Working THEN Append(trace, nxt) ELSE trace
    /\ failedAt' = IF nxt = "error_handler" THEN s ELSE failedAt
    /\ peer' = [peer EXCEPT !.state = other_after(s, @, st)]
    /\ UNCHANGED <<raised, lastExc, fails, waiting, reentries, context,
                   logged, util>>

\* the graph moves from stage s, which produced st, along its conditional
\* edge; the wrapper of the next stage starts counting at its first attempt
Advance(s, st) ==
    LET nxt == conditional_edge(s, st) IN
    /\ state' = st
    /\ node' = nxt
    /\ attempt' = 1
    /\ succ' = [succ EXCEPT ![s] = TRUE]
    /\ trace' = IF nxt \in Working THEN Append(trace, nxt) ELSE trace
    /\ failedAt' = IF nxt = "error_handler" THEN s ELSE failedAt
    /\ peer' = [peer EXCEPT !.state = other_after(s, @, st)]
    /\ UNCHANGED <<raised, lastExc, fails, waiting, reentries, context,
                   logged, util>>

\* an exception leaves the stage function, whose except block logs it,
\* then graph.ainvoke and run_pipeline, whose except block logs it
Raise(s, kind, cause) ==
    /\ node' = RAISED
    /\ raised' = <<kind, cause>>
    /\ lastExc' = IF kind = "RetryError" THEN cause ELSE kind
    /\ failedAt' = s
    /\ logged' = logger_error(logger_error(logged, s), "run_pipeline")
    /\ UNCHANGED <<attempt, state, succ, trace, waiting, reentries, context,
                   peer, util>>

\* a wrapper schedules another attempt after the delay named by sleep
Backoff(exc, sleep) ==
    /\ attempt' = Bump(attempt)
    /\ lastExc' = exc
    /\ waiting' = sleep
    /\ UNCHANGED <<node, state, raised, succ, trace, failedAt, reentries, context,
                   peer, util>>

\* one attempt of a stage under @retry
RetriedAttempt(s, outcome, updated) ==
    /\ node = s
    /\ waiting = None
    /\ calls' = [calls EXCEPT ![s] = Bump(@)]
    /\ UNCHANGED dbTries
    /\ IF outcome = "ok"
       THEN Advance(s, updated)
       ELSE /\ fails' = [fails EXCEPT ![s] = Bump(@)]
            /\ IF stop_after_attempt(attempt)
               THEN Raise(s, "RetryError", outcome)
               ELSE /\ Backoff(outcome, "asyncio.sleep")
                    /\ logged' = logger_error(logged, s)

(***************************************************************************)
(* The four stages                                                         *)
(***************************************************************************)
\* besides the collaborator and the parser, the construction of the new
\* QueryContext from the parsed scope can raise (ValidationError)
query_analysis ==
    \E outcome \in {"ok", "LLMError", "OutputParserException", "ValidationError"} :
        RetriedAttempt("query_analysis", outcome, analysis_update(state))

query_enhancement ==
    \E outcome \in {"ok", "LLMError"} :
        RetriedAttempt("query_enhancement", outcome, enhancement_update(state))

cypher_generation ==
    \E outcome \in {"ok", "LLMError"} :
        RetriedAttempt("cypher_generation", outcome, cypher_update(state))

\* one try of Neo4jClient.execute_query inside query_execution; the client
\* itself logs nothing when it tries again
execute_query(exc) ==
    /\ fails' = [fails EXCEPT !["query_execution"] = Bump(@)]
    /\ dbTries' = Append(dbTries, Try(exc, <<>>))
    /\ IF exc \in Transient /\ ~max_tries_exceeded(attempt)
       THEN Backoff(exc, "time.sleep") /\ UNCHANGED logged
       ELSE Raise("query_execution", exc, None)

\* a try of the database call and, when it returns rows, the rest of the body
query_execution ==
    /\ node = "query_execution"
    /\ waiting = None
    /\ calls' = [calls EXCEPT !["query_execution"] = Bump(@)]
    /\ \/ \E rows \in RowSeqs :
            /\ dbTries' = Append(dbTries, Try(None, rows))
            /\ IF ValidRows(rows)
               THEN Advance("query_execution", execution_update(state, rows))
               ELSE /\ Raise("query_execution", "ValidationError", None)
                    /\ UNCHANGED fails
       \/ \E exc \in Transient \cup {"ClientError"} : execute_query(exc)

\* the delay of a wrapper elapses and it starts its next attempt
backoff_delay ==
    /\ waiting # None
    /\ waiting' = None
    /\ reentries' = IF waiting = "asyncio.sleep" THEN Bump(reentries) ELSE reentries
    /\ UNCHANGED <<node, attempt, state, raised, lastExc, calls, succ, fails,
                   trace, failedAt, context, dbTries, logged, peer, util>>

\* the recovery router: the conditional edges leaving error_handler
error_handler ==
    LET nxt == error_edge(handle_error(state)) IN
    /\ node = "error_handler"
    /\ nxt \in Working => Len(trace) < MaxEntries
    /\ node' = nxt
    /\ attempt' = 1
    /\ trace' = IF nxt \in Working THEN Append(trace, nxt) ELSE trace
    /\ calls' = IF nxt \in Working THEN [calls EXCEPT ![nxt] = 0] ELSE calls
    /\ succ' = IF nxt \in Working THEN [succ EXCEPT ![nxt] = FALSE] ELSE succ
    /\ reentries' = IF nxt \in Working THEN Bump(reentries) ELSE reentries
    /\ dbTries' = IF nxt = "query_execution" THEN <<>> ELSE dbTries
    /\ UNCHANGED <<state, raised, lastExc, fails, failedAt, waiting, context,
                   logged, peer, util>>

Next ==
    \/ query_analysis
    \/ query_enhancement
    \/ cypher_generation
    \/ query_execution
    \/ backoff_delay

NextGraph ==
    \/ Next
    \/ error_handler

\* the variables of the run
runvars == <<node, attempt, state, raised, lastExc, calls, succ, fails, trace,
             failedAt, waiting, reentries, context, dbTries, logged>>

\* a stage of the second run, whose collaborators succeed: the event loop
\* resumes its coroutine unless the loop's thread is held by a blocking sleep
peer_step ==
    LET s == peer.node
        out == StageUpdate(s, peer.state) IN
    /\ s \in Working
    /\ ~blocks_event_loop(waiting)
    /\ peer' = [node |-> conditional_edge(s, out), state |-> out]
    /\ state' = other_after(s, state, out)
    /\ UNCHANGED <<node, attempt, raised, lastExc, calls, succ, fails, trace,
                   failedAt, waiting, reentries, context, dbTries, logged, util>>

NextConc ==
    \/ Next
    \/ peer_step

\* PipelineUtils.save_results(results, path, "json")
save_results ==
    /\ "save_results" \notin util.called
    /\ util' = [util EXCEPT
                   !.file = {[i \in 1..Len(util.results) |-> json_dump(util.results[i])]},
                   !.called = @ \cup {"save_results"}]
    /\ UNCHANGED <<runvars, peer>>

\* PipelineUtils.load_results(path) of the file save_results wrote
load_results ==
    /\ "load_results" \notin util.called
    /\ \E data \in util.file :
          util' = [util EXCEPT
                     !.loaded = {[i \in 1..Len(data) |-> model_validate(data[i])]},
                     !.called = @ \cup {"load_results"}]
    /\ UNCHANGED <<runvars, peer>>

\* PipelineUtils.cache_results(cache_dir, key, results): mkdir precedes the
\* try block, whose except clause logs and returns
cache_results ==
    /\ "cache_results" \notin util.called
    /\ util' = [util EXCEPT
                   !.cache = IF util.fault \in StoreFaults THEN @ ELSE {util.results},
                   !.raised = IF util.fault = "mkdir" THEN "OSError" ELSE @,
                   !.called = @ \cup {"cache_results"}]
    /\ UNCHANGED <<runvars, peer>>

\* PipelineUtils.get_cached_results(cache_dir, key): the whole body is in
\* the try block, whose except clause logs and returns None
get_cached_results ==
    /\ "get_cached_results" \notin util.called
    /\ util' = [util EXCEPT
                   !.hit = IF util.fault \in ReadFaults THEN {} ELSE util.cache,
                   !.called = @ \cup {"get_cached_results"}]
    /\ UNCHANGED <<runvars, peer>>

NextUtils ==
    \/ save_results
    \/ load_results
    \/ cache_results
    \/ get_cached_results

Spec == Init /\ [][Next]_vars

FairSpec == Spec /\ WF_vars(Next)

SpecGraph == InitGraph /\ [][NextGraph]_vars

SpecConc == Init /\ [][NextConc]_vars

NextExecute ==
    \/ query_execution
    \/ backoff_delay

SpecExecute == InitExecute /\ [][NextExecute]_vars

SpecUtils == InitUtils /\ [][NextUtils]_vars

(***************************************************************************)
(* Vocabulary of the claims                                                *)
(***************************************************************************)
\* the run ended with a complete result / with an error
done == node = END /\ state.error = None
failed == node = RAISED \/ (node = END /\ state.error # None)

\* a step in which stage s fails: an exception leaves it, or the State it
\* produced carries an error
StageFails(s) ==
    /\ node = s
    /\ \/ raised' # NoExc
       \/ (node' # s /\ state'.error # None)

\* one wrapped stage failed exactly MAX_RETRIES - 1 times, and no other
\* collaborator call failed or returned rows the result schema rejects
OneStageFailedThenSucceeded ==
    /\ \E s \in Wrapped :
          /\ fails[s] = MAX_RETRIES - 1
          /\ \A t \in Working \ {s} : fails[t] = 0
    /\ raised[1] # "ValidationError"

(***************************************************************************)
(* C1. The stages are entered in the order query_analysis,                 *)
(* query_enhancement, cypher_generation, query_execution; a stage is       *)
(* entered only after the preceding one produced a State without error;    *)
(* only the stage entered last is executing; and a successful              *)
(* query_execution leads to done.                                          *)
(***************************************************************************)
C1_StagesInOrder ==
    /\ Len(trace) <= Len(StageOrder)
    /\ trace = SubSeq(StageOrder, 1, Len(trace))
    /\ \A i \in 2..Len(trace) : succ[trace[i - 1]] /\ state.error = None
    /\ node \in Working => node = trace[Len(trace)] /\ ~succ[node]
    /\ succ["query_execution"] => done

C1_Witness ==
    /\ done
    /\ trace = StageOrder
    /\ fails["query_enhancement"] > 0

(***************************************************************************)
(* C2. Whenever a working stage fails, the next state of the workflow is   *)
(* error_handler.                                                          *)
(***************************************************************************)
C2_FailureGoesToErrorHandler ==
    [][\A s \in Working : StageFails(s) => node' = "error_handler"]_vars

(***************************************************************************)
(* C3. When a working stage fails while retry_count < MAX_RETRIES, the     *)
(* run stays in the workflow and the recovery router sends it back to the  *)
(* stage that failed, and to no other stage.                               *)
(***************************************************************************)
C3_ReentersFailedStage ==
    [][\A s \in Working :
          (StageFails(s) /\ state.retry_count < MAX_RETRIES)
              => /\ node' \notin Terminal
                 /\ error_edge(handle_error(state')) = s]_vars

(***************************************************************************)
(* C4. retry_count equals the number of re-entries performed so far: each  *)
(* time a stage is started again after a failure, retry_count has been     *)
(* incremented by one.                                                     *)
(***************************************************************************)
C4_RetryCountCountsReentries == state.retry_count = reentries

(***************************************************************************)
(* C5. Every run terminates: it reaches done or failed.                    *)
(***************************************************************************)
C5_RunTerminates == <>(done \/ failed)

C5_Witness ==
    /\ done
    /\ \A s \in Wrapped : fails[s] = MAX_RETRIES - 1
    /\ fails["query_execution"] = MAX_RETRIES - 1

C7_ExhaustedBudgetTerminates ==
    /\ [][(node = "error_handler" /\ state.retry_count >= MAX_RETRIES)
             => (node' = END /\ failed' /\ trace' = trace)]_vars
    /\ [][(node \in Terminal) => (node' = node /\ trace' = trace)]_vars

C7_Witness ==
    /\ node = END
    /\ failed
    /\ failedAt \in Working
    /\ state.retry_count >= MAX_RETRIES
    /\ state.current_node = failedAt

(***************************************************************************)
(* C8. One entry into Analyze, Enhance or Translate invokes the stage body *)
(* at most MAX_RETRIES times, and not again after an attempt succeeded.    *)
(***************************************************************************)
C8_AtMostMaxAttempts ==
    /\ [](\A s \in Wrapped : calls[s] <= MAX_RETRIES /\ (succ[s] => node # s))
    /\ [][\A s \in Wrapped : succ[s] => calls'[s] = calls[s]]_vars

C8_Witness ==
    /\ succ["query_enhancement"]
    /\ calls["query_enhancement"] = MAX_RETRIES
    /\ calls["cypher_generation"] = MAX_RETRIES
    /\ node = RAISED

(***************************************************************************)
(* C9. If one retried stage fails exactly MAX_RETRIES - 1 times and then   *)
(* succeeds, and every other collaborator call succeeds, the run reaches   *)
(* done with results set and no error.                                     *)
(***************************************************************************)
C9_SucceedsAfterRetries ==
    (node \in Terminal /\ OneStageFailedThenSucceeded)
        => (done /\ state.results # {} /\ raised = NoExc)

C9_Witness ==
    /\ done
    /\ fails["cypher_generation"] = MAX_RETRIES - 1
    /\ OneStageFailedThenSucceeded
    /\ state.results # {}

(***************************************************************************)
(* C10. In such a run the retry_count of the final State equals            *)
(* MAX_RETRIES - 1.                                                        *)
(***************************************************************************)
C10_FinalRetryCount ==
    (done /\ OneStageFailedThenSucceeded)
        => state.retry_count = MAX_RETRIES - 1

(***************************************************************************)
(* Vocabulary of the claims C11..C20                                       *)
(***************************************************************************)
\* the result list of the State, when results is set
Results == CHOOSE r \in state.results : TRUE

\* the first n tries of the current database call all raised exc
FirstTriesRaised(n, exc) ==
    /\ Len(dbTries) >= n
    /\ \A i \in 1..n : dbTries[i] = Try(exc, <<>>)

\* the last try of the database call returned rows
LastTryReturned ==
    /\ dbTries # <<>>
    /\ dbTries[Len(dbTries)].exc = None

LastRows == dbTries[Len(dbTries)].rows

IsPrefix(a, b) == Len(a) <= Len(b) /\ a = SubSeq(b, 1, Len(a))

\* a step in which an attempt of stage s succeeds
Succeeds(s) == node = s /\ ~succ[s] /\ succ'[s]

(***************************************************************************)
(* C11. If a stage's collaborator fails MAX_RETRIES consecutive times, the *)
(* run terminates with a MaxRetriesExceeded error (naming the stage).      *)
(***************************************************************************)
C11_RaisesMaxRetriesExceeded ==
    (node \in Terminal /\ failedAt \in Working /\ fails[failedAt] >= MAX_RETRIES)
        => raised[1] = "MaxRetriesExceeded"

(***************************************************************************)
(* C12. After MAX_RETRIES consecutive failures of a wrapped stage the      *)
(* error raised by run_pipeline is the stage's own last failure, of the    *)
(* same kind, not a different wrapper error.                               *)
(***************************************************************************)
C12_LastFailureUnmodified ==
    (node = RAISED /\ failedAt \in Wrapped) => raised[1] = lastExc

(***************************************************************************)
(* C13 as stated. If the database raises ServiceUnavailable on its first   *)
(* call, Execute surfaces it immediately: the database is queried once and *)
(* the run terminates with that error.                                     *)
(***************************************************************************)
C13_FirstFailureSurfaces ==
    FirstTriesRaised(1, "ServiceUnavailable")
        => /\ Len(dbTries) = 1
           /\ node = RAISED
           /\ raised[1] = "ServiceUnavailable"

(***************************************************************************)
(* C13 as amended. If the database raises ServiceUnavailable on its first  *)
(* MAX_RETRIES - 1 calls and returns valid rows on the next, the client    *)
(* retries inside Execute: no failure is surfaced while tries remain, the  *)
(* database is queried MAX_RETRIES times and the run completes with the    *)
(* rows of the last call as results.                                       *)
(***************************************************************************)
C13_ClientRetriesTransient ==
    /\ \A k \in 1..(MAX_RETRIES - 1) :
          (Len(dbTries) = k /\ FirstTriesRaised(k, "ServiceUnavailable"))
              => (node = "query_execution" /\ raised = NoExc)
    /\ ( /\ Len(dbTries) = MAX_RETRIES
         /\ FirstTriesRaised(MAX_RETRIES - 1, "ServiceUnavailable")
         /\ LastTryReturned
         /\ ValidRows(LastRows) )
        => (done /\ state.results = {processed_results(LastRows, state)}
                 /\ calls["query_execution"] = MAX_RETRIES)

C13_Witness ==
    /\ done
    /\ Len(dbTries) = MAX_RETRIES
    /\ FirstTriesRaised(MAX_RETRIES - 1, "ServiceUnavailable")
    /\ LastTryReturned
    /\ Len(LastRows) > 0

(***************************************************************************)
(* C14. If the database client raises an error on its first calls and      *)
(* would return rows on the third, query_execution succeeds after retries: *)
(* it returns a State without error after exactly two failed calls.        *)
(***************************************************************************)
C14_ExecutionRetriesClient ==
    (node \in Terminal /\ dbTries # <<>> /\ dbTries[1].exc = "ClientError")
        => (done /\ fails["query_execution"] = 2)

(***************************************************************************)
(* C15. Whenever run_pipeline returns normally all four stages have        *)
(* succeeded and results is set; otherwise it raises: a State holding only *)
(* the output of earlier stages is never returned.                         *)
(***************************************************************************)
C15_ReturnsOnlyComplete ==
    /\ node = END =>
          /\ \A s \in Working : succ[s]
          /\ state.results # {}
          /\ state.enhanced_query = "enhanced"
          /\ state.cypher_query = "cypher"
          /\ state.error = None
          /\ raised = NoExc
    /\ node = RAISED => (raised # NoExc /\ failedAt \in Working)

C15_Witness ==
    /\ node = END
    /\ state.results # {}
    /\ fails["query_analysis"] = MAX_RETRIES - 1
    /\ context # DefaultContext

(***************************************************************************)
(* C16. No stage mutates its input State: after a stage returns, every     *)
(* field of its input State, including the contents of history and of      *)
(* performance_metrics, equals its value before the call.                  *)
(***************************************************************************)
C16_InputNotMutated ==
    [][\A s \in Working : Succeeds(s) => input_after(s, state, state') = state]_vars

(***************************************************************************)
(* C17. Analyze changes only search_scope within the query context:        *)
(* relevance_threshold, max_results and include_metadata of the produced   *)
(* State equal those of the input State, and search_scope is the extracted *)
(* document scope.                                                         *)
(***************************************************************************)
C17_AnalyzeKeepsContext ==
    [][Succeeds("query_analysis") =>
          /\ state'.query_context.search_scope = DocumentScope
          /\ state'.query_context.relevance_threshold
                 = state.query_context.relevance_threshold
          /\ state'.query_context.max_results = state.query_context.max_results
          /\ state'.query_context.include_metadata
                 = state.query_context.include_metadata]_vars

(***************************************************************************)
(* C18. For every run that succeeds, the number of results is at most      *)
(* max_results of the context the caller passed, whatever number of rows   *)
(* the database returns.                                                   *)
(***************************************************************************)
C18_AtMostMaxResults == done => Len(Results) <= context.max_results

(***************************************************************************)
(* C19. For every run that succeeds every result's relevance_score lies    *)
(* within [0,1]; a database row whose score is outside [0,1] makes Execute *)
(* fail with a validation error and no result is produced.                 *)
(***************************************************************************)
C19_ScoresInRange ==
    /\ done => \A i \in 1..Len(Results) :
                   /\ 0 <= Results[i].relevance_score
                   /\ Results[i].relevance_score <= 10
    /\ (LastTryReturned
          /\ \E i \in 1..Len(LastRows) :
                 /\ "score" \in DOMAIN LastRows[i]
                 /\ LastRows[i].score < 0 \/ LastRows[i].score > 10)
        => (node = RAISED /\ raised[1] = "ValidationError" /\ state.results = {})

C19_Witness ==
    /\ node = RAISED
    /\ raised[1] = "ValidationError"
    /\ LastTryReturned
    /\ Len(LastRows) = 2
    /\ LastRows[1] = [id |-> 2, score |-> 9]
    /\ Get(LastRows[2], "score", 10) = 15

(***************************************************************************)
(* C20. Across every step of a run, retried attempts and error_handler     *)
(* re-entries included, the history of the successor State has the         *)
(* predecessor's history as a prefix.                                      *)
(***************************************************************************)
C20_HistoryGrows == [][IsPrefix(state.history, state'.history)]_vars

C20_Witness ==
    /\ Len(trace) = 3
    /\ trace[2] = "query_analysis"
    /\ trace[3] = "query_analysis"
    /\ fails["query_analysis"] > 0
    /\ Len(state.history) = 9

(***************************************************************************)
(* Vocabulary of the claims C21..C30                                       *)
(***************************************************************************)
\* a step in which an attempt of stage s fails: the body of a wrapped stage
\* raises, or an exception leaves query_execution
AttemptFails(s) ==
    /\ node = s
    /\ IF s \in Wrapped THEN fails'[s] # fails[s] ELSE raised' # NoExc

(***************************************************************************)
(* C21. Retries spent on one stage do not reduce the retries available to  *)
(* a later stage: whatever the earlier stages have spent, the wrapper of   *)
(* the running stage counts only that stage's own failures, and the run    *)
(* ends in failed at a stage only after MAX_RETRIES failures of that very  *)
(* stage (so MAX_RETRIES - 1 failures followed by a success never fail).   *)
(***************************************************************************)
C21_StageBudgetsIndependent ==
    /\ node \in Working => attempt = fails[node] + 1
    /\ \A s \in Wrapped :
          (node = RAISED /\ failedAt = s) => fails[s] = MAX_RETRIES
    /\ (node = RAISED /\ failedAt = "query_execution" /\ raised[1] \in Transient)
          => fails["query_execution"] = MAX_RETRIES

C21_Witness ==
    /\ done
    /\ fails["query_analysis"] = 1
    /\ fails["query_enhancement"] = MAX_RETRIES - 1
    /\ fails["cypher_generation"] = MAX_RETRIES - 1
    /\ fails["query_execution"] = MAX_RETRIES - 1

(***************************************************************************)
(* C22. While one run is suspended in a backoff delay (that of the stage   *)
(* retry wrapper or that of the database client inside query_execution),   *)
(* every other concurrent run that is ready to proceed can take a step.    *)
(***************************************************************************)
C22_BackoffDoesNotStall ==
    (waiting # None /\ peer.node \in Working) => ENABLED peer_step

(***************************************************************************)
(* C23. Concurrent runs never share a State: a step of one run changes no  *)
(* field of the State of the other run.                                    *)
(***************************************************************************)
C23_RunsShareNoState ==
    [][IF peer' # peer /\ peer'.node # peer.node
       THEN state' = state
       ELSE peer' = peer]_vars

C23_Witness ==
    /\ peer.node = "cypher_generation"
    /\ node = "query_execution"
    /\ fails["query_analysis"] > 0
    /\ "enhancement_duration" \in peer.state.performance_metrics
    /\ "query_complexity_score" \in state.performance_metrics
    /\ state.performance_metrics # peer.state.performance_metrics

(***************************************************************************)
(* C24. A caching failure is never propagated to the caller: cache_results *)
(* returns normally whatever fails while storing an entry (creating the    *)
(* cache directory included), and get_cached_results returns None whatever *)
(* fails while reading one.                                                *)
(***************************************************************************)
C24_CacheFailuresContained ==
    /\ "cache_results" \in util.called => util.raised = None
    /\ ("get_cached_results" \in util.called /\ util.fault \in ReadFaults)
          => (util.raised = None /\ util.hit = {})

(***************************************************************************)
(* C25. A validation error raised inside a stage is not retried: the       *)
(* attempt that raised it is the stage's last, and run_pipeline raises     *)
(* that error.                                                             *)
(***************************************************************************)
C25_ValidationNotRetried ==
    [][\A s \in Working :
          (node = s /\ calls'[s] # calls[s] /\ lastExc' = "ValidationError")
              => (node' = RAISED /\ raised'[1] = "ValidationError")]_vars

(***************************************************************************)
(* C26. Saving a list of QueryResult with save_results as json and loading *)
(* the written file with load_results returns a list of the same length    *)
(* and order whose elements are field-equal to the originals.              *)
(***************************************************************************)
C26_JsonRoundTrip ==
    "load_results" \in util.called => util.loaded = {util.results}

(***************************************************************************)
(* C27. Every QueryContext in a State of a run, and the one the caller     *)
(* passed, has relevance_threshold within [0,1] and max_results >= 1;      *)
(* arguments outside these limits yield no QueryContext.                   *)
(***************************************************************************)
C27_ContextsValid ==
    /\ \A c \in {state.query_context, context, peer.state.query_context} :
          /\ 0 <= c.relevance_threshold /\ c.relevance_threshold <= 10
          /\ c.max_results >= 1
    /\ \A c \in ContextArgs :
          (c.relevance_threshold < 0 \/ c.relevance_threshold > 10
             \/ c.max_results < 1) => c \notin Contexts

C27_Witness ==
    /\ node = "query_enhancement"
    /\ context.max_results = 1
    /\ context.relevance_threshold = 9
    /\ state.query_context.relevance_threshold = 7
    /\ Cardinality(ContextArgs \ Contexts) = 3

(***************************************************************************)
(* C28. After every successful run performance_metrics contains a          *)
(* total_duration entry; after a successful query_analysis the produced    *)
(* State's performance_metrics contains an analysis_duration entry.        *)
(***************************************************************************)
C28_MetricsPresent ==
    /\ done => "total_duration" \in state.performance_metrics
    /\ succ["query_analysis"] => "analysis_duration" \in state.performance_metrics

(***************************************************************************)
(* C29. Every failed stage attempt is logged in the step in which it       *)
(* fails, hence before the wrapper's delay, before the next attempt of the *)
(* stage and before the run terminates; the exception that ends the run is *)
(* logged by run_pipeline as well.                                         *)
(***************************************************************************)
C29_FailuresLogged ==
    /\ [][\A s \in Working : AttemptFails(s) => logged'[s] = logged[s] + 1]_vars
    /\ [][(raised = NoExc /\ raised' # NoExc)
             => logged'["run_pipeline"] = logged["run_pipeline"] + 1]_vars
    /\ [](\A s \in Wrapped : logged[s] = fails[s])
    /\ [](node = RAISED => (logged[failedAt] > 0 /\ logged["run_pipeline"] = 1))

C29_Witness ==
    /\ node = RAISED
    /\ failedAt = "cypher_generation"
    /\ logged["cypher_generation"] = MAX_RETRIES
    /\ logged["query_analysis"] = 1
    /\ logged["run_pipeline"] = 1

(***************************************************************************)
(* C30. Calling query_analysis twice on the same input State with a        *)
(* deterministic collaborator yields two States with identical             *)
(* enhanced_query and search_scope: what the first call leaves in the      *)
(* input State does not change the result of the second.                   *)
(***************************************************************************)
C30_AnalyzeRepeatable ==
    LET first == analysis_update(state)
        second == analysis_update(input_after("query_analysis", state, first))
    IN /\ second.enhanced_query = first.enhanced_query
       /\ second.query_context.search_scope = first.query_context.search_scope

C30_Witness ==
    /\ node = "query_enhancement"
    /\ succ["query_analysis"]
    /\ state.enhanced_query = "intent of query"
    /\ state.query_context.search_scope = DocumentScope
    /\ "analysis_duration" \in state.performance_metrics

(***************************************************************************)
(* C31. On success query_execution sets results to exactly one QueryResult *)
(* per returned row, in row order: node_id is the row's id as a string,    *)
(* content the row's properties (the empty mapping if absent),             *)
(* relevance_score the row's score or 1.0 if absent, metadata the row's    *)
(* metadata when include_metadata of the input State is true and None when *)
(* it is false, and each relationship maps type to type, end_node to       *)
(* target and properties to properties.                                    *)
(***************************************************************************)
C31_RowsMapped ==
    [][Succeeds("query_execution") =>
          \E res \in state'.results :
              LET rows == dbTries'[Len(dbTries')].rows IN
              /\ Len(res) = Len(rows)
              /\ \A i \in 1..Len(rows) :
                    LET r == rows[i]
                        q == res[i]
                        rels == IF "relationships" \in DOMAIN r
                                THEN r.relationships ELSE <<>> IN
                    /\ q.node_id = ToString(r.id)
                    /\ q.content = IF "properties" \in DOMAIN r
                                   THEN r.properties ELSE {}
                    /\ q.relevance_score = IF "score" \in DOMAIN r
                                           THEN r.score ELSE 10
                    /\ q.metadata =
                           IF state.query_context.include_metadata
                           THEN {r[k] : k \in {"metadata"} \cap DOMAIN r}
                           ELSE {}
                    /\ Len(q.relationships) = Len(rels)
                    /\ \A j \in 1..Len(rels) :
                          /\ "type" \in DOMAIN rels[j]
                                => q.relationships[j].type = rels[j].type
                          /\ "end_node" \in DOMAIN rels[j]
                                => q.relationships[j].target = rels[j].end_node
                          /\ "properties" \in DOMAIN rels[j]
                                => q.relationships[j].properties
                                       = rels[j].properties]_vars

C31_Witness ==
    /\ done
    /\ ~context.include_metadata
    /\ Len(Results) = 2
    /\ Results[1].node_id = "1"
    /\ Results[1].metadata = {}
    /\ Results[1].relationships[1].target = "456"
    /\ Results[2].node_id = "2"
    /\ Results[2].content = {}

(***************************************************************************)
(* C32. Every relationship descriptor of every QueryResult produced by     *)
(* query_execution has a type and a target with a value: a row containing  *)
(* a relationship without type or without end_node yields no QueryResult,  *)
(* query_execution fails with a validation error instead.                  *)
(***************************************************************************)
C32_RelationshipsComplete ==
    /\ \A res \in state.results :
          \A i \in 1..Len(res) :
              \A j \in 1..Len(res[i].relationships) :
                  /\ res[i].relationships[j].type # None
                  /\ res[i].relationships[j].target # None
    /\ (LastTryReturned
          /\ \E i \in 1..Len(LastRows) :
                 \E j \in 1..Len(Get(LastRows[i], "relationships", <<>>)) :
                     ~({"type", "end_node"}
                          \subseteq DOMAIN LastRows[i].relationships[j]))
        => (node = RAISED /\ raised[1] = "ValidationError")

(***************************************************************************)
(* C33. Neo4jClient.execute_query runs the query at most MAX_RETRIES times *)
(* per call: it runs it again only after a ServiceUnavailable or           *)
(* SessionExpired failure (and then does, while tries remain), returns the *)
(* rows of the first try that succeeds, raises the last such failure once  *)
(* MAX_RETRIES tries have failed, and raises any other failure at once.    *)
(***************************************************************************)
C33_ClientRetryPolicy ==
    /\ Len(dbTries) <= MAX_RETRIES
    /\ \A i \in 1..(Len(dbTries) - 1) :
          dbTries[i].exc \in {"ServiceUnavailable", "SessionExpired"}
    /\ (dbTries # <<>> /\ Len(dbTries) < MAX_RETRIES
          /\ dbTries[Len(dbTries)].exc \in {"ServiceUnavailable", "SessionExpired"})
        => (node = "query_execution" /\ raised = NoExc)
    /\ (dbTries # <<>> /\ dbTries[Len(dbTries)].exc # None
          /\ (Len(dbTries) = MAX_RETRIES
                 \/ dbTries[Len(dbTries)].exc
                        \notin {"ServiceUnavailable", "SessionExpired"}))
        => (node = RAISED /\ raised = <<dbTries[Len(dbTries)].exc, None>>)
    /\ (LastTryReturned /\ node # RAISED)
        => state.results = {processed_results(LastRows, state)}

C33_Witness ==
    /\ node = RAISED
    /\ Len(dbTries) = MAX_RETRIES
    /\ dbTries[1].exc = "ServiceUnavailable"
    /\ dbTries[2].exc = "SessionExpired"
    /\ raised = <<"ServiceUnavailable", None>>

(***************************************************************************)
(* C34. In every reachable state of a run, current_node names the working  *)
(* stage that is executing or was entered last.                            *)
(***************************************************************************)
C34_CurrentNodeTracksStage ==
    /\ node \in Working => state.current_node = node
    /\ node \in Terminal => state.current_node = trace[Len(trace)]

(***************************************************************************)
(* C35. Each stage changes only its own fields: original_query and         *)
(* start_time are the same in every State of a run; query_enhancement      *)
(* changes only enhanced_query, history and performance_metrics;           *)
(* cypher_generation only cypher_query, history and performance_metrics;   *)
(* query_execution only results and performance_metrics; and               *)
(* enhanced_query (cypher_query) does not change once cypher_generation    *)
(* (query_execution) has consumed it.                                      *)
(***************************************************************************)
Unchanged(fields) == \A f \in fields : state'[f] = state[f]

C35_StagesKeepFrame ==
    [][/\ Unchanged({"original_query", "start_time"})
       /\ Succeeds("query_enhancement") =>
             Unchanged(DOMAIN state
                 \ {"enhanced_query", "history", "performance_metrics"})
       /\ Succeeds("cypher_generation") =>
             Unchanged(DOMAIN state
                 \ {"cypher_query", "history", "performance_metrics"})
       /\ Succeeds("query_execution") =>
             Unchanged(DOMAIN state \ {"results", "performance_metrics"})
       /\ (succ["cypher_generation"] \/ Succeeds("cypher_generation"))
             => Unchanged({"enhanced_query"})
       /\ (succ["query_execution"] \/ Succeeds("query_execution"))
             => Unchanged({"cypher_query"})]_vars

C35_Witness ==
    /\ done
    /\ state.original_query = "query"
    /\ state.enhanced_query = "enhanced"
    /\ state.cypher_query = "cypher"
    /\ Len(state.history) = 9
    /\ Len(Results) = 1
    /\ fails["query_enhancement"] = 1

====
